---- MODULE Spec2Model ----
(***************************************************************************)
(* Automation instance lifecycle of the office server (COM handles for     *)
(* Word, Excel, PowerPoint), of the browser server (one Selenium driver),  *)
(* the window locator, and the positioning and capture of a window by     *)
(* capture_window_screenshot.                                              *)
(*                                                                         *)
(* A handle is a number 1..MaxHandles; 0 stands for Python's None.  The    *)
(* external application behind a handle is a process that is either        *)
(* running or gone (it quit, or it was killed from outside).  Calls into   *)
(* the external application are the only source of nondeterminism: every   *)
(* call into a process that is gone raises; a call into a running process  *)
(* returns or raises, and a call that raised has changed nothing.          *)
(***************************************************************************)
EXTENDS Integers, Sequences, FiniteSets, TLC

\* ------------------------------------------------------------------ bounds
MaxHandles == 3      \* application instances constructed in one run
NThreads == 2        \* request threads of the browser server

None == 0
Handles == 1..MaxHandles
OfficeKinds == {"word", "excel", "powerpoint"}
BrowserKinds == {"chrome", "edge"}
Threads == 1..NThreads

VARIABLES
    office_apps,     \* office-server: kind -> handle or None
    kindOf,          \* handle -> kind of the application it was constructed for
    running,         \* handles whose process is running
    nextId,          \* number of instances constructed so far
    call,            \* what the last office handler did (calls it made)
    resp,            \* the response envelope of the last office handler
    lastAcquired,    \* kind -> handle the last get_or_create returned, None
                     \* once a release or a kill of that kind came after it
    browser,         \* browser-server: the driver handle or None
    browser_type,    \* browser-server: "chrome" or "edge"
    chrome_installed, \* find_chrome_path() finds an executable
    edge_installed,  \* find_edge_path() finds an executable
    pc,              \* request thread -> its position in the handler it runs
    loc,             \* request thread -> the locals of the handler it runs
    bcall,           \* what the browser handler that finished last did
    bresp,           \* the response envelope of that handler
    windows,         \* the top-level windows, in OS enumeration order
    class_name,      \* argument of find_window_by_class_or_title
    title_pattern,   \* argument of find_window_by_class_or_title
    lpc,             \* "call" before find_window_by_class_or_title, "done" after
    located,         \* what find_window_by_class_or_title did
    win,             \* the window capture_window_screenshot is called with
    primary,         \* mss: sct.monitors[1]
    cpc,             \* position inside capture_window_screenshot
    rect,            \* its locals left, top, right, bottom
    ops,             \* the window and capture operations it has made, in order
    cres,            \* its return value
    cg,              \* what its steps did (moves, regions, foreground, DC)
    envMoves,        \* changes made to the window from outside so far
    server,          \* the program a behaviour is a run of: "office", "browser",
                     \* or a call of one function, "locate", "capture"
    app_state        \* what a caller can observe of the applications: the
                     \* selection of the Word document, the browser window size

procVars == <<kindOf, running, nextId>>
officeVars == <<office_apps, call, resp, lastAcquired>>
browserVars == <<browser, browser_type, chrome_installed, edge_installed, pc, loc,
                 bcall, bresp>>
locateVars == <<windows, class_name, title_pattern, lpc, located>>
captureVars == <<win, primary, cpc, rect, ops, cres, cg, envMoves>>
vars == <<office_apps, kindOf, running, nextId, call, resp, lastAcquired,
          browser, browser_type, chrome_installed, edge_installed, pc, loc,
          bcall, bresp, windows, class_name, title_pattern, lpc, located,
          win, primary, cpc, rect, ops, cres, cg, envMoves, server, app_state>>

\* ------------------------------------------------------- response envelope
\* get_error_response: 'details' is present only when it is non-empty
get_error_response(message, details) ==
    IF details # ""
    THEN [success |-> FALSE, error |-> message, details |-> details]
    ELSE [success |-> FALSE, error |-> message]

get_success_response(message) == [success |-> TRUE, message |-> message]

\* img.save(buffer, format='PNG'): signature, IHDR, IDAT and IEND framing,
\* then one filter byte and three bytes a pixel for every row
PngOverhead == 57
PngLen(w, h) == PngOverhead + h * (3 * w + 1)
\* base64.b64encode: four characters for every three bytes, padded
Base64Len(n) == 4 * ((n + 2) \div 3)

\* get_success_response with data: response.update(data)
get_success_response_data(message, data) == data @@ get_success_response(message)

\* str(e) of the exception raised by each kind of failing call
ExcText(cause) ==
    CASE cause = "construct" -> "Invalid class string"
      [] cause = "stale"     -> "The RPC server is unavailable"
      [] cause = "feature"   -> "Call was rejected by callee"
      [] cause = "save"      -> "Document is read-only"
      [] cause = "quit"      -> "Call was rejected by callee"
      [] OTHER               -> ""

LaunchError == [word |-> "Failed to launch Word", excel |-> "Failed to launch Excel",
                powerpoint |-> "Failed to launch PowerPoint"]
LaunchOk == [word |-> "Word launched successfully", excel |-> "Excel launched successfully",
             powerpoint |-> "PowerPoint launched successfully"]
WriteError == [word |-> "Failed to write text", excel |-> "Failed to write cell",
               powerpoint |-> "Failed to write text"]
WriteOk == [word |-> "Text written successfully", excel |-> "Value written to A1",
            powerpoint |-> "Text written to slide"]
NoDocError == [word |-> "No active Word document", excel |-> "No active Excel workbook",
               powerpoint |-> "No active PowerPoint presentation"]
CloseError == [word |-> "Failed to close Word", excel |-> "Failed to close Excel",
               powerpoint |-> "Failed to close PowerPoint"]
CloseOk == [word |-> "Word closed", excel |-> "Excel closed", powerpoint |-> "PowerPoint closed"]

\* call.ret is the handle get_or_create returned (None when it raised),
\* call.target the handle a close endpoint found in the slot.
\* The arguments of an editing request and what the handler computed from
\* them: start/count/last and the name endname of the last column for the
\* delete endpoints (was is the sheet before the call), the hex digits and
\* the integer handed to the application for the colour endpoints.
NoArg == [start |-> 0, count |-> 0, last |-> 0, endname |-> <<>>, was |-> <<>>,
          hex |-> <<>>, value |-> 0]

NoCall == [op |-> "none", kind |-> "none", probe |-> "none", dispatch |-> 0,
           ret |-> None, target |-> None, quit |-> "none", raised |-> "none",
           arg |-> NoArg]

\* ------------------------------------------------------------ the registry
\* The liveness probe: reading .Visible raises once the process is gone.
ProbeOk(h) == h \in running

\* Outcomes of win32com.client.Dispatch: a new instance, or an exception.
\* No instance is constructed once MaxHandles have been.
DispatchOutcomes == IF nextId < MaxHandles THEN {"ok", "raised"} ELSE {"raised"}

\* The outcomes to consider for the handler of kind k: Dispatch is not
\* called when the held handle passes the probe.
DispatchChoices(k) ==
    IF office_apps[k] # None /\ ProbeOk(office_apps[k]) THEN {"unused"} ELSE DispatchOutcomes

\* get_or_create without the early return: Dispatch is called even when the
\* held handle passes the probe.
get_or_create_redispatch(k, d) ==
    LET h == office_apps[k]
        probe == IF h = None THEN "none" ELSE IF ProbeOk(h) THEN "ok" ELSE "failed"
    IN IF d # "raised" /\ nextId < MaxHandles
       THEN [slot |-> nextId + 1, ret |-> nextId + 1, probe |-> probe,
             dispatch |-> 1, new |-> nextId + 1, raised |-> "none"]
       ELSE [slot |-> None, ret |-> None, probe |-> probe,
             dispatch |-> 1, new |-> None, raised |-> "construct"]

\* get_or_create without the probe: a held handle is returned as it is.
get_or_create_noprobe(k, d) ==
    LET h == office_apps[k] IN
    IF h # None
    THEN [slot |-> h, ret |-> h, probe |-> "none", dispatch |-> 0, new |-> None,
          raised |-> "none"]
    ELSE IF d = "ok"
         THEN [slot |-> nextId + 1, ret |-> nextId + 1, probe |-> "none",
               dispatch |-> 1, new |-> nextId + 1, raised |-> "none"]
         ELSE [slot |-> None, ret |-> None, probe |-> "none",
               dispatch |-> 1, new |-> None, raised |-> "construct"]

\* get_or_create_word / _excel / _powerpoint.  d is the outcome of Dispatch
\* when Dispatch is called.  The result names the slot's new value, the
\* handle returned (None when Dispatch raised) and the calls made.
get_or_create(k, d) ==
    LET h == office_apps[k] IN
    IF h # None /\ ProbeOk(h)
    THEN [slot |-> h, ret |-> h, probe |-> "ok", dispatch |-> 0, new |-> None,
          raised |-> "none"]
    ELSE LET probe == IF h # None THEN "failed" ELSE "none" IN
         \* the except branch has cleared the slot before Dispatch is called
         IF d = "ok"
         THEN [slot |-> nextId + 1, ret |-> nextId + 1, probe |-> probe,
               dispatch |-> 1, new |-> nextId + 1, raised |-> "none"]
         ELSE [slot |-> None, ret |-> None, probe |-> probe,
               dispatch |-> 1, new |-> None, raised |-> "construct"]

\* The process table after get_or_create returned g for kind k.
Constructed(g, k) ==
    /\ nextId' = IF g.new # None THEN g.new ELSE nextId
    /\ kindOf' = IF g.new # None THEN [kindOf EXCEPT ![g.new] = k] ELSE kindOf
    /\ running' = IF g.new # None THEN running \cup {g.new} ELSE running

AcquireCall(op, k, g, cause) ==
    [op |-> op, kind |-> k, probe |-> g.probe, dispatch |-> g.dispatch,
     ret |-> g.ret, target |-> None, quit |-> "none", raised |-> cause,
     arg |-> NoArg]

\* Outcomes of the calls a launch handler makes on the handle it acquired
\* (Visible = True, Documents.Count, Documents.Add); none is made when
\* get_or_create raised.
LaunchOutcomes(g) == IF g.raised = "none" THEN {"ok", "raised"} ELSE {"unused"}

\* Outcomes of the calls a feature handler makes on the handle it acquired:
\* Documents.Count is 0, or the edit returns or raises.
FeatureOutcomes(g) == IF g.raised = "none" THEN {"ok", "nodoc", "raised"} ELSE {"unused"}

\* word_launch / excel_launch / powerpoint_launch.
office_launch(k) ==
    \E d \in DispatchChoices(k) : \E f \in LaunchOutcomes(get_or_create(k, d)) :
        LET g == get_or_create(k, d)
            cause == IF g.raised # "none" THEN g.raised
                     ELSE IF f = "raised" THEN "feature" ELSE "none"
        IN /\ Constructed(g, k)
           /\ office_apps' = [office_apps EXCEPT ![k] = g.slot]
           /\ lastAcquired' = [lastAcquired EXCEPT ![k] = g.ret]
           /\ call' = AcquireCall("launch", k, g, cause)
           /\ resp' = IF cause = "none"
                      THEN get_success_response(LaunchOk[k])
                      ELSE get_error_response(LaunchError[k], ExcText(cause))
           /\ UNCHANGED <<browserVars, locateVars, captureVars, server, app_state>>

\* word_write / excel_write_cell / powerpoint_write_text: a feature operation.
office_write(k) ==
    \E d \in DispatchChoices(k) : \E f \in FeatureOutcomes(get_or_create(k, d)) :
        LET g == get_or_create(k, d)
            cause == IF g.raised # "none" THEN g.raised
                     ELSE IF f = "nodoc" THEN "nodoc"
                     ELSE IF f = "raised" THEN "feature" ELSE "none"
        IN /\ Constructed(g, k)
           /\ office_apps' = [office_apps EXCEPT ![k] = g.slot]
           /\ lastAcquired' = [lastAcquired EXCEPT ![k] = g.ret]
           /\ call' = AcquireCall("write", k, g, cause)
           /\ resp' = CASE cause = "none"  -> get_success_response(WriteOk[k])
                        [] cause = "nodoc" -> get_error_response(NoDocError[k], "")
                        [] OTHER -> get_error_response(WriteError[k], ExcText(cause))
           /\ app_state' = IF k = "word" /\ cause = "none"
                           THEN [app_state EXCEPT !.selection = "caret"]
                           ELSE app_state
           /\ UNCHANGED <<browserVars, locateVars, captureVars, server>>

\* Sizes of the pictures the screenshot endpoints get from the clipboard,
\* from the first page of the exported PDF, from Slide.Export and from the
\* browser
PictureSizes == {<<1, 1>>, <<1920, 1080>>}

\* The 'image' entry of a response is the base64 text of a PNG; the model
\* keeps its length.
PngImage(size) == Base64Len(PngLen(size[1], size[2]))

ScreenshotData(size) == [image |-> PngImage(size), format |-> "png", encoding |-> "base64"]

\* What a screenshot endpoint meets after get_or_create returned: no document;
\* a call on the document raises; the first method gives a picture; the
\* fallback gives one (word: PDF export, page rendered by PyMuPDF); no method
\* gives one.  For powerpoint: Slide.Export wrote the file or did not.
ScreenshotOutcomes(k, g) ==
    IF g.raised # "none" THEN {"unused"}
    ELSE CASE k = "word" -> {"nodoc", "raised", "picture", "fallback", "exhausted"}
           [] k = "excel" -> {"nodoc", "raised", "picture", "exhausted"}
           [] OTHER -> {"nodoc", "noslides", "badslide", "raised", "picture", "exhausted"}

\* The selection of the Word document after word_screenshot: a Word that was
\* just started has a caret; Selection.WholeStory() (line 452) selects the
\* whole document, and the first method may fail before or after it.
SelectionAfter(k, f, g) ==
    LET before == IF g.new # None THEN "caret" ELSE app_state.selection
    IN IF k # "word" THEN {app_state.selection}
       ELSE CASE f = "picture" -> {"whole"}
              [] f \in {"fallback", "exhausted"} -> {before, "whole"}
              [] OTHER -> {before}

ScreenshotExhausted ==
    [word |-> "Failed to capture screenshot", excel |-> "Failed to capture screenshot",
     powerpoint |-> "Failed to export slide"]

\* word_screenshot / excel_screenshot / powerpoint_screenshot
office_screenshot(k) ==
    \E d \in DispatchChoices(k) : \E f \in ScreenshotOutcomes(k, get_or_create(k, d)) :
    \E size \in (IF f \in {"picture", "fallback"} THEN PictureSizes ELSE {<<0, 0>>}) :
    \E sel \in SelectionAfter(k, f, get_or_create(k, d)) :
        LET g == get_or_create(k, d)
            cause == IF g.raised # "none" THEN g.raised
                     ELSE IF f = "raised" THEN "feature"
                     ELSE IF f \in {"picture", "fallback"} THEN "none" ELSE f
        IN /\ Constructed(g, k)
           /\ office_apps' = [office_apps EXCEPT ![k] = g.slot]
           /\ lastAcquired' = [lastAcquired EXCEPT ![k] = g.ret]
           /\ call' = AcquireCall("screenshot", k, g, cause)
           /\ resp' = CASE cause = "none" ->
                             get_success_response_data("Screenshot captured",
                                                       ScreenshotData(size))
                        [] cause = "nodoc" -> get_error_response(NoDocError[k], "")
                        [] cause = "noslides" ->
                             get_error_response("Presentation has no slides", "")
                        [] cause = "badslide" ->
                             get_error_response("Invalid slide number", "")
                        [] cause = "exhausted" ->
                             get_error_response(ScreenshotExhausted[k], "")
                        [] OTHER -> get_error_response("Screenshot failed", ExcText(cause))
           /\ app_state' = [app_state EXCEPT !.selection = sel]
           /\ UNCHANGED <<browserVars, locateVars, captureVars, server>>

\* Outcomes of Quit on handle h: it raises when the process is gone; on a
\* running process it returns (the process quits) or raises (nothing changed).
QuitOutcomes(h) == IF h \in running THEN {"ok", "raised"} ELSE {"raised"}

\* Outcomes of the save loop of a close endpoint: not run without the 'save'
\* flag; enumerating the documents of a process that is gone raises.
SaveOutcomes(h, save) ==
    IF ~save THEN {"unused"} ELSE IF h \in running THEN {"ok", "raised"} ELSE {"raised"}

\* word_close / excel_close / powerpoint_close.  save is the request's 'save'
\* flag, s the outcome of the save loop, q the outcome of Quit.
office_close(k) ==
    LET h == office_apps[k] IN
    IF h = None
    THEN /\ resp' = get_success_response(CloseOk[k])
         /\ call' = [NoCall EXCEPT !.op = "close", !.kind = k]
         /\ lastAcquired' = [lastAcquired EXCEPT ![k] = None]
         /\ UNCHANGED <<office_apps, procVars, browserVars, locateVars, captureVars, server, app_state>>
    ELSE \E save \in BOOLEAN : \E s \in SaveOutcomes(h, save) :
         \E q \in (IF s = "raised" THEN {"unused"} ELSE QuitOutcomes(h)) :
         LET cause == IF s = "raised"
                      THEN (IF h \in running THEN "save" ELSE "stale")
                      ELSE IF q = "raised"
                      THEN (IF h \in running THEN "quit" ELSE "stale")
                      ELSE "none"
         IN /\ office_apps' = IF cause = "none"
                              THEN [office_apps EXCEPT ![k] = None] ELSE office_apps
            /\ running' = IF cause = "none" THEN running \ {h} ELSE running
            /\ lastAcquired' = [lastAcquired EXCEPT ![k] = None]
            /\ call' = [NoCall EXCEPT !.op = "close", !.kind = k, !.target = h,
                           !.quit = IF q = "unused" THEN "none" ELSE q,
                           !.raised = cause]
            /\ resp' = IF cause = "none"
                       THEN get_success_response(CloseOk[k])
                       ELSE get_error_response(CloseError[k], ExcText(cause))
            /\ UNCHANGED <<kindOf, nextId, browserVars, locateVars, captureVars, server, app_state>>

\* shutdown of the office server: Quit on every held handle, each in its own
\* try/except; a slot is cleared only when its Quit returned.
office_shutdown ==
    \E q \in [OfficeKinds -> {"ok", "raised"}] :
        LET held(k) == office_apps[k] # None
            quitOk == {k \in OfficeKinds : held(k) /\ q[k] = "ok"}
        IN /\ \A k \in OfficeKinds :
                 /\ (~held(k) => q[k] = "ok")
                 /\ (held(k) => q[k] \in QuitOutcomes(office_apps[k]))
           /\ office_apps' = [k \in OfficeKinds |->
                                 IF k \in quitOk THEN None ELSE office_apps[k]]
           /\ running' = running \ {office_apps[k] : k \in quitOk}
           /\ lastAcquired' = [k \in OfficeKinds |-> None]
           /\ call' = [NoCall EXCEPT !.op = "shutdown", !.kind = "all",
                          !.quit = IF \E k \in OfficeKinds : held(k) /\ q[k] = "raised"
                                   THEN "raised"
                                   ELSE IF \E k \in OfficeKinds : held(k)
                                   THEN "ok" ELSE "none"]
           /\ resp' = get_success_response("Server shutting down")
           /\ UNCHANGED <<kindOf, nextId, browserVars, locateVars, captureVars, server, app_state>>

\* The application process of an office handle is killed from outside.
KillOffice ==
    \E h \in running :
        /\ kindOf[h] \in OfficeKinds
        /\ running' = running \ {h}
        /\ lastAcquired' = [lastAcquired EXCEPT ![kindOf[h]] = None]
        /\ UNCHANGED <<office_apps, call, resp, kindOf, nextId, browserVars, locateVars, captureVars, server, app_state>>

\* ------------------------------------------------------- the browser server
\* bcall.built is the handle a launch constructed.
\* What one run of bring_window_to_front did: the branch it took, the
\* AttachThreadInput(.., True) calls that succeeded, the
\* AttachThreadInput(.., False) calls it made, the SetForegroundWindow calls
\* it made, and what it returned.
NoFront == [path |-> "none", attached |-> 0, detached |-> 0, fg |-> 0, ret |-> FALSE]

\* The 'except Exception' fallback of bring_window_to_front: one more
\* SetForegroundWindow, which returns (return True) or raises (the outer
\* except prints the error, return False).
Fallback(f) == {[f EXCEPT !.fg = @ + 1, !.ret = r] : r \in BOOLEAN}

\* The runs of bring_window_to_front. No visible window with the title (or
\* no win32): return False. IsIconic/ShowWindow/BringWindowToTop raising goes
\* to the outer except. Inside the inner try: the thread ids cannot be read,
\* or both threads are the same and SetForegroundWindow returns or raises, or
\* the threads differ and AttachThreadInput(True), SetForegroundWindow and
\* AttachThreadInput(False) run in this order, each returning or raising;
\* whatever raises there is followed by the fallback. EnumWindows is outside
\* every try: when it raises, so does the function.
bring_window_to_front ==
    {[NoFront EXCEPT !.path = p] : p \in {"enum_raised", "nowindow", "show_raised"}}
    \cup Fallback([NoFront EXCEPT !.path = "threads_raised"])
    \cup {[NoFront EXCEPT !.path = "same_thread", !.fg = 1, !.ret = TRUE]}
    \cup Fallback([NoFront EXCEPT !.path = "same_thread_raised", !.fg = 1])
    \cup Fallback([NoFront EXCEPT !.path = "attach_raised"])
    \cup Fallback([NoFront EXCEPT !.path = "fg_raised", !.attached = 1, !.fg = 1])
    \cup Fallback([NoFront EXCEPT !.path = "detach_raised", !.attached = 1, !.fg = 1,
                                  !.detached = 1])
    \cup {[NoFront EXCEPT !.path = "attached", !.attached = 1, !.fg = 1,
                          !.detached = 1, !.ret = TRUE]}

NoBCall == [op |-> "none", quit |-> "none", built |-> None, raised |-> "none",
            front |-> NoFront]

\* The locals of browser_launch: the preferred browser of the request, and
\* what the handler has done so far.
\* held is the running browser the slot held when the handler began (None when
\* the slot was empty or its browser already gone).
NoLocals == [pref |-> "chrome", quit |-> "none", built |-> None, held |-> None]

\* The handler thread t runs returns response r, having done c.
Respond(t, r, c) ==
    /\ bresp' = r
    /\ bcall' = c
    /\ pc' = [pc EXCEPT ![t] = "idle"]
    /\ loc' = [loc EXCEPT ![t] = NoLocals]

\* What remains unchanged while a handler is under way.
Continue(t, at) ==
    /\ pc' = [pc EXCEPT ![t] = at]
    /\ UNCHANGED <<bcall, bresp>>

\* browser_launch, lines 199-212: 'if browser:' decides whether quit is called.
launch_begin(t) ==
    /\ pc[t] = "idle"
    /\ \E p \in BrowserKinds :
          loc' = [loc EXCEPT ![t] = [NoLocals EXCEPT
                     !.pref = p,
                     !.held = IF browser \in running THEN browser ELSE None]]
    /\ Continue(t, IF browser # None THEN "l_quit" ELSE "l_find")
    /\ UNCHANGED <<browser, browser_type, chrome_installed, edge_installed, procVars,
                   officeVars, locateVars, captureVars, server, app_state>>

\* browser.quit() inside try/except: the global is read again (None when
\* another thread cleared it: the AttributeError is swallowed like any other).
launch_quit(t) ==
    /\ pc[t] = "l_quit"
    /\ \E q \in (IF browser = None THEN {"raised"} ELSE QuitOutcomes(browser)) :
          /\ running' = IF q = "ok" THEN running \ {browser} ELSE running
          /\ loc' = [loc EXCEPT ![t].quit = q]
    /\ Continue(t, "l_clear")
    /\ UNCHANGED <<browser, browser_type, chrome_installed, edge_installed,
                   kindOf, nextId, officeVars, locateVars, captureVars, server, app_state>>

\* browser = None, whatever quit did
launch_clear(t) ==
    /\ pc[t] = "l_clear"
    /\ browser' = None
    /\ Continue(t, "l_find")
    /\ UNCHANGED <<browser_type, chrome_installed, edge_installed, loc, procVars,
                   officeVars, locateVars, captureVars, server, app_state>>

\* The branch browser_launch takes: Chrome when it is preferred and found,
\* else Edge when it is found, else none.
SelectBrowser(p) ==
    IF p = "chrome" /\ chrome_installed THEN "chrome"
    ELSE IF edge_installed THEN "edge"
    ELSE "none"

LaunchCall(t, cause) ==
    [NoBCall EXCEPT !.op = "launch", !.quit = loc[t].quit, !.built = loc[t].built,
                    !.raised = cause]

\* Lines 214-262: the driver constructor, and the stores to browser and
\* browser_type that follow it.
launch_construct(t) ==
    /\ pc[t] = "l_find"
    /\ LET b == SelectBrowser(loc[t].pref) IN
       IF b = "none"
       THEN /\ Respond(t, get_error_response("No browser found",
                                             "Neither Chrome nor Edge is installed"),
                       LaunchCall(t, "nobrowser"))
            /\ UNCHANGED <<browser, browser_type, procVars, app_state>>
       ELSE \E d \in DispatchOutcomes :
            IF d = "ok"
            THEN /\ nextId' = nextId + 1
                 /\ kindOf' = [kindOf EXCEPT ![nextId + 1] = b]
                 /\ running' = running \cup {nextId + 1}
                 /\ browser' = nextId + 1
                 /\ browser_type' = b
                 /\ loc' = [loc EXCEPT ![t].built = nextId + 1]
                 /\ app_state' = [app_state EXCEPT !.size = "user"]
                 /\ Continue(t, "l_front")
            ELSE /\ Respond(t, get_error_response("Failed to launch browser",
                                                  ExcText("construct")),
                            LaunchCall(t, "construct"))
                 /\ UNCHANGED <<browser, browser_type, procVars, app_state>>
    /\ UNCHANGED <<chrome_installed, edge_installed, officeVars, locateVars, captureVars,
                   server>>

\* The success response of browser_launch, lines 269-272: it names the
\* browser_type read at that moment.
LaunchedResponse ==
    [success |-> TRUE,
     message |-> IF browser_type = "chrome" THEN "Chrome launched successfully"
                 ELSE "Edge launched successfully",
     browser |-> browser_type]

\* Lines 264-272 of a headless launch: no window is brought to the front.
launch_done(t) ==
    /\ pc[t] = "l_front"
    /\ Respond(t, LaunchedResponse, LaunchCall(t, "none"))
    /\ UNCHANGED <<browser, browser_type, chrome_installed, edge_installed, procVars,
                   officeVars, locateVars, captureVars, server, app_state>>

\* Lines 264-275 of a launch with a window: bring_window_to_front runs, its
\* result is ignored; EnumWindows raising in it reaches the handler's except.
launch_front(t) ==
    /\ pc[t] = "l_front"
    /\ \E f \in bring_window_to_front :
          IF f.path = "enum_raised"
          THEN Respond(t, get_error_response("Failed to launch browser", ExcText("front")),
                       [LaunchCall(t, "front") EXCEPT !.front = f])
          ELSE Respond(t, LaunchedResponse, [LaunchCall(t, "none") EXCEPT !.front = f])
    /\ UNCHANGED <<browser, browser_type, chrome_installed, edge_installed, procVars,
                   officeVars, locateVars, captureVars, server, app_state>>

\* browser_close: 'if browser:'
close_begin(t) ==
    /\ pc[t] = "idle"
    /\ IF browser = None
       THEN Respond(t, get_success_response("Browser closed"),
                    [NoBCall EXCEPT !.op = "close"])
       ELSE Continue(t, "c_quit") /\ loc' = loc
    /\ UNCHANGED <<browser, browser_type, chrome_installed, edge_installed, procVars,
                   officeVars, locateVars, captureVars, server, app_state>>

\* browser.quit(): an exception leaves the handler before the slot is cleared
close_quit(t) ==
    /\ pc[t] = "c_quit"
    /\ \E q \in (IF browser = None THEN {"raised"} ELSE QuitOutcomes(browser)) :
          IF q = "ok"
          THEN /\ running' = running \ {browser}
               /\ Continue(t, "c_clear")
               /\ loc' = loc
          ELSE LET cause == IF browser \in running THEN "quit" ELSE "stale" IN
               /\ Respond(t, get_error_response("Failed to close browser", ExcText(cause)),
                          [NoBCall EXCEPT !.op = "close", !.quit = "raised",
                                          !.raised = cause])
               /\ running' = running
    /\ UNCHANGED <<browser, browser_type, chrome_installed, edge_installed,
                   kindOf, nextId, officeVars, locateVars, captureVars, server, app_state>>

close_clear(t) ==
    /\ pc[t] = "c_clear"
    /\ browser' = None
    /\ Respond(t, get_success_response("Browser closed"),
               [NoBCall EXCEPT !.op = "close", !.quit = "ok"])
    /\ UNCHANGED <<browser_type, chrome_installed, edge_installed, procVars, officeVars, locateVars, captureVars, server, app_state>>

\* Outcomes of a call on the driver b: it raises when the process is gone.
DriverOutcomes(b) == IF b \in running THEN {"ok", "raised"} ELSE {"raised"}

\* A handler that uses the driver without changing the registry: no driver,
\* or the call on it returns or raises.
UseDriver(t, op, okResp, errMsg) ==
    /\ pc[t] = "idle"
    /\ IF browser = None
       THEN Respond(t, get_error_response("Browser not running", "Use /browser/launch first"),
                    [NoBCall EXCEPT !.op = op, !.raised = "notrunning"])
       ELSE \E f \in DriverOutcomes(browser) :
            LET cause == IF f = "ok" THEN "none"
                         ELSE IF browser \in running THEN "feature" ELSE "stale"
            IN Respond(t, IF f = "ok" THEN okResp
                          ELSE get_error_response(errMsg, ExcText(cause)),
                       [NoBCall EXCEPT !.op = op, !.raised = cause])
    /\ UNCHANGED <<browser, browser_type, chrome_installed, edge_installed, procVars,
                   officeVars, locateVars, captureVars, server, app_state>>

browser_navigate(t) ==
    UseDriver(t, "navigate", get_success_response("Navigated successfully"),
              "Failed to navigate")

\* browser_focus: the held browser's window is brought to the front; the
\* response follows what bring_window_to_front returned.
browser_focus(t) ==
    /\ pc[t] = "idle"
    /\ IF browser = None
       THEN Respond(t, get_error_response("Browser not running", "Use /browser/launch first"),
                    [NoBCall EXCEPT !.op = "focus", !.raised = "notrunning"])
       ELSE \E f \in bring_window_to_front :
            IF f.path = "enum_raised"
            THEN Respond(t, get_error_response("Failed to focus browser", ExcText("front")),
                         [NoBCall EXCEPT !.op = "focus", !.raised = "front", !.front = f])
            ELSE Respond(t, IF f.ret
                            THEN get_success_response("Browser window focused")
                            ELSE get_error_response("Failed to focus window",
                                   "Window not found or win32gui not available"),
                         [NoBCall EXCEPT !.op = "focus", !.front = f,
                                         !.raised = IF f.ret THEN "none" ELSE "nofocus"])
    /\ UNCHANGED <<browser, browser_type, chrome_installed, edge_installed, procVars,
                   officeVars, locateVars, captureVars, server, app_state>>

\* Outcomes of browser_screenshot on a held driver: with full_page the
\* scripts and set_window_size come first and may raise; then
\* get_screenshot_as_base64 returns or raises.
ShotOutcomes(b, full_page) ==
    IF b \notin running
    THEN (IF full_page THEN {"raised_resize"} ELSE {"raised"})
    ELSE {"ok", "raised"} \cup (IF full_page THEN {"raised_resize"} ELSE {})

\* browser_screenshot: 'image' is what get_screenshot_as_base64 returned;
\* with full_page the window has been resized before (line 343) and is left
\* at that size
browser_screenshot(t) ==
    /\ pc[t] = "idle"
    /\ IF browser = None
       THEN /\ Respond(t, get_error_response("Browser not running",
                                             "Use /browser/launch first"),
                       [NoBCall EXCEPT !.op = "screenshot", !.raised = "notrunning"])
            /\ UNCHANGED app_state
       ELSE \E full_page \in BOOLEAN : \E size \in PictureSizes :
            \E f \in ShotOutcomes(browser, full_page) :
            LET cause == IF f = "ok" THEN "none"
                         ELSE IF browser \in running THEN "feature" ELSE "stale"
                resized == full_page /\ f \in {"ok", "raised"}
            IN /\ Respond(t, IF f = "ok"
                             THEN get_success_response_data("Screenshot captured",
                                                            ScreenshotData(size))
                             ELSE get_error_response("Failed to take screenshot",
                                                     ExcText(cause)),
                          [NoBCall EXCEPT !.op = "screenshot", !.raised = cause])
               /\ app_state' = IF resized THEN [app_state EXCEPT !.size = "fullpage"]
                               ELSE app_state
    /\ UNCHANGED <<browser, browser_type, chrome_installed, edge_installed, procVars,
                   officeVars, locateVars, captureVars, server>>

\* shutdown of the browser server: quit and clear inside one try/except
browser_shutdown(t) ==
    /\ pc[t] = "idle"
    /\ \E q \in (IF browser = None THEN {"unused"} ELSE QuitOutcomes(browser)) :
          /\ running' = IF q = "ok" THEN running \ {browser} ELSE running
          /\ browser' = IF q = "ok" THEN None ELSE browser
          /\ Respond(t, get_success_response("Server shutting down"),
                     [NoBCall EXCEPT !.op = "shutdown",
                         !.quit = IF q = "unused" THEN "none" ELSE q])
    /\ UNCHANGED <<browser_type, chrome_installed, edge_installed, kindOf, nextId,
                   officeVars, locateVars, captureVars, server, app_state>>

\* The browser process of a driver is killed from outside.
KillBrowser ==
    \E h \in running :
        /\ kindOf[h] \in BrowserKinds
        /\ running' = running \ {h}
        /\ UNCHANGED <<kindOf, nextId, browserVars, officeVars, locateVars, captureVars, server, app_state>>

\* ------------------------------------------------------- the window locator
\* A string is a sequence of characters.  An optional string (Python's
\* Optional[str]) is <<>> for None and <<s>> for the string s.
NoStr == << >>
Some(s) == <<s>>

LowerChar(c) ==
    CASE c = "O" -> "o"
      [] c = "P" -> "p"
      [] c = "W" -> "w"
      [] c = "D" -> "d"
      [] OTHER   -> c

\* str.lower()
Lower(s) == [i \in 1..Len(s) |-> LowerChar(s[i])]

\* Python's 'a in b' on strings
Contains(a, b) ==
    \E i \in 0..(Len(b) - Len(a)) : SubSeq(b, i + 1, i + Len(a)) = a

\* The guard left out: 'p.lower() in text.lower()' is evaluated for every p.
SuppliedUnguarded(p) == TRUE

\* Python's truth value of an optional string: None and "" are false
Supplied(p) == p # NoStr /\ p[1] # << >>

\* 'p and p.lower() in text.lower()': "raised" stands for the AttributeError of
\* None.lower(), which the guard keeps from being evaluated.
GuardedContains(p, text) ==
    IF ~Supplied(p) THEN "no"
    ELSE IF p = NoStr THEN "raised"
    ELSE IF Contains(Lower(p[1]), Lower(text)) THEN "yes" ELSE "no"

\* enum_callback on window w: "append", "skip" or "raised"
enum_callback(w) ==
    IF ~w.visible THEN "skip"
    ELSE LET c == GuardedContains(class_name, w.class) IN
         IF c = "raised" THEN "raised"
         ELSE IF c = "yes" THEN "append"
         ELSE LET t == GuardedContains(title_pattern, w.title) IN
              IF t = "raised" THEN "raised"
              ELSE IF t = "yes" THEN "append" ELSE "skip"

\* result[-1] in place of result[0]
LastOf(S) == CHOOSE i \in S : \A j \in S : i >= j

\* The element of result the function returns: result[0]
FirstOf(S) == CHOOSE i \in S : \A j \in S : i <= j

\* win32gui.FindWindow(class_name, None): the first top-level window, visible
\* or not, whose class name is class_name (window classes compare without
\* case); 0 when there is none.  A window's handle is its place in windows.
FindWindow(cn) ==
    LET m == {i \in 1..Len(windows) : Lower(windows[i].class) = Lower(cn[1])}
    IN IF m = {} THEN 0 ELSE FirstOf(m)

\* find_window_by_class_or_title(class_name, title_pattern): hwnd is the
\* value returned (None when nothing was found), enumerated says whether
\* EnumWindows was called, raised whether an exception left the function.
find_window_by_class_or_title ==
    LET hwnd == FindWindow(class_name) IN
    IF hwnd # 0
    THEN [hwnd |-> hwnd, enumerated |-> FALSE, raised |-> FALSE]
    ELSE LET n == Len(windows)
             result == {i \in 1..n : enum_callback(windows[i]) = "append"}
         IN IF \E i \in 1..n : enum_callback(windows[i]) = "raised"
            THEN [hwnd |-> None, enumerated |-> TRUE, raised |-> TRUE]
            ELSE [hwnd |-> IF result # {} THEN FirstOf(result) ELSE None,
                  enumerated |-> TRUE, raised |-> FALSE]

Locate ==
    /\ lpc = "call"
    /\ located' = find_window_by_class_or_title
    /\ lpc' = "done"
    /\ UNCHANGED <<windows, class_name, title_pattern, procVars, officeVars, browserVars,
                   captureVars, server, app_state>>

\* Window classes and titles of the windows on the desktop, and the patterns
\* a caller passes.
MaxWindows == 2
WindowClasses == {<<"O", "p">>, <<"o", "P", "x">>, <<"x">>}
WindowTitles == {<< >>, <<"W">>, <<"d", "w">>}
ClassPatterns == {<< >>, <<"o", "p">>, <<"O", "P", "x">>, <<"z">>}
TitlePatterns == {<< >>, <<"w">>, <<"D", "W">>, <<"z">>}
Window == [class : WindowClasses, title : WindowTitles, visible : BOOLEAN]
WindowLists == UNION {[1..n -> Window] : n \in 0..MaxWindows}

NotLocated == [hwnd |-> None, enumerated |-> FALSE, raised |-> FALSE]

\* ------------------------------------------------- capture_window_screenshot
\* A rectangle is <<left, top, right, bottom>> in virtual-screen coordinates.
MaxEnvMoves == 1     \* changes made to the window from outside during a call

SW_RESTORE == 9
SW_MAXIMIZE == 3
AnchorX == 50
AnchorY == 50
MoveMaxWidth == 1600
MoveMaxHeight == 900
ScreenWidth == 1920      \* the display at the origin of the virtual screen
ScreenHeight == 1080

Min(a, b) == IF a <= b THEN a ELSE b
Max(a, b) == IF a >= b THEN a ELSE b
Width(r) == r[3] - r[1]
Height(r) == r[4] - r[2]

\* Rectangles a window is given by its owner or by the user
NormalRects ==
    { <<100, 100, 1380, 820>>,      \* 1280x720 inside the display at the origin
      <<-200, 100, 1080, 820>>,     \* 1280x720 reaching beyond the left edge
      <<2000, 0, 4000, 1000>>,      \* 2000x1000 on a second display
      <<2020, 100, 3300, 820>>,     \* 1280x720 on a second display
      <<10, 10, 10, 10>> }          \* a window of no size
\* GetWindowRect of a maximized window: the display, or the display with the
\* sizing border hanging over its edges
MaximizedRects ==
    { <<0, 0, ScreenWidth, ScreenHeight>>,
      <<-8, -8, ScreenWidth + 8, ScreenHeight + 8>> }
\* GetWindowRect of a minimized window
MinimizedRect == <<-32000, -32000, -31840, -31972>>
\* sct.monitors[1]: the first display mss enumerates
Monitors ==
    { [left |-> 0, top |-> 0, width |-> ScreenWidth, height |-> ScreenHeight],
      [left |-> 1920, top |-> 0, width |-> 1920, height |-> 1080] }
WindowStates == {"min", "normal", "max"}

\* win.denied: the window belongs to a process of higher integrity, calls
\* that change it are refused
CallOk(w) == w.alive /\ ~w.denied

GetWindowRect(w) ==
    CASE w.state = "min" -> MinimizedRect
      [] w.state = "max" -> w.maxrect
      [] OTHER -> w.normal

ShowWindow(w, cmd) ==
    IF ~CallOk(w) THEN w
    ELSE IF cmd = SW_RESTORE THEN [w EXCEPT !.state = "normal"]
    ELSE IF cmd = SW_MAXIMIZE THEN [w EXCEPT !.state = "max"]
    ELSE w

SetWindowPos(w, x, y, cx, cy) ==
    IF ~CallOk(w) THEN w
    ELSE [w EXCEPT !.normal = <<x, y, x + cx, y + cy>>]

NoRegion == [left |-> 0, top |-> 0, width |-> 0, height |-> 0]
Strategies == {"mss", "pyautogui", "printwindow"}
NoResult == [done |-> FALSE, image |-> FALSE, by |-> "none", w |-> 0, h |-> 0, len |-> 0]
NoSteps ==
    [restore |-> "none", move |-> "none", maximize |-> "none",
     pre |-> <<0, 0, 0, 0>>, post |-> <<0, 0, 0, 0>>,
     checked |-> <<0, 0, 0, 0>>, last |-> <<0, 0, 0, 0>>,
     attach |-> "none", fg |-> "none",
     used |-> [s \in Strategies |-> NoRegion],
     failed |-> {}, dc |-> "none", abort |-> "none"]

ReturnEmpty(why, g) ==
    /\ cres' = [NoResult EXCEPT !.done = TRUE, !.image = TRUE]
    /\ cg' = [g EXCEPT !.abort = why]
    /\ cpc' = "done"

\* return None (lines 142, 251)
ReturnNone(why, g) ==
    /\ cres' = [NoResult EXCEPT !.done = TRUE]
    /\ cg' = [g EXCEPT !.abort = why]
    /\ cpc' = "done"

Outcome(w) == IF CallOk(w) THEN "ok" ELSE "failed"

\* line 118: ctypes.windll.user32.ShowWindow(hwnd, 9); the value it returns is
\* not looked at
cap_restore ==
    /\ cpc = "restore"
    /\ win' = ShowWindow(win, SW_RESTORE)
    /\ ops' = Append(ops, "restore")
    /\ cg' = [cg EXCEPT !.restore = Outcome(win)]
    /\ cpc' = "read0"
    /\ UNCHANGED <<primary, rect, cres, envMoves, procVars, officeVars, browserVars,
                   locateVars, server, app_state>>

\* lines 123-125: GetWindowRect raises when the window is gone
cap_read0 ==
    /\ cpc = "read0"
    /\ ops' = Append(ops, "read")
    /\ IF win.alive
       THEN /\ rect' = GetWindowRect(win)
            /\ cpc' = "move"
            /\ UNCHANGED <<cres, cg>>
       ELSE /\ ReturnNone("window", cg)
            /\ UNCHANGED rect
    /\ UNCHANGED <<win, primary, envMoves, procVars, officeVars, browserVars,
                   locateVars, server, app_state>>

\* line 128: SetWindowPos(hwnd, 0, 50, 50, min(width, 1600), min(height, 900),
\* SWP_SHOWWINDOW); the value it returns is not looked at
MoveWidth(width) == Min(width, MoveMaxWidth)
MoveHeight(height) == Min(height, MoveMaxHeight)

cap_move ==
    /\ cpc = "move"
    /\ win' = SetWindowPos(win, AnchorX, AnchorY,
                           MoveWidth(Width(rect)), MoveHeight(Height(rect)))
    /\ ops' = Append(ops, "move")
    /\ cg' = [cg EXCEPT !.move = Outcome(win),
                        !.pre = rect,
                        !.post = win'.normal]
    /\ cpc' = "maximize"
    /\ UNCHANGED <<primary, rect, cres, envMoves, procVars, officeVars, browserVars,
                   locateVars, server, app_state>>

\* line 132: ShowWindow(hwnd, 3)
cap_maximize ==
    /\ cpc = "maximize"
    /\ win' = ShowWindow(win, SW_MAXIMIZE)
    /\ ops' = Append(ops, "maximize")
    /\ cg' = [cg EXCEPT !.maximize = Outcome(win)]
    /\ cpc' = "read1"
    /\ UNCHANGED <<primary, rect, cres, envMoves, procVars, officeVars, browserVars,
                   locateVars, server, app_state>>

\* lines 136-142: the rectangle after maximize, and the check of its size
cap_read1 ==
    /\ cpc = "read1"
    /\ ops' = Append(ops, "read")
    /\ IF ~win.alive
       THEN /\ ReturnNone("window", cg)
            /\ UNCHANGED rect
       ELSE LET r == GetWindowRect(win)
                g == [cg EXCEPT !.checked = r]
            IN /\ rect' = r
               /\ IF Width(r) <= 0 \/ Height(r) <= 0
                  THEN ReturnNone("invalid", g)
                  ELSE /\ cg' = g
                       /\ cpc' = "foreground"
                       /\ UNCHANGED cres
    /\ UNCHANGED <<win, primary, envMoves, procVars, officeVars, browserVars,
                   locateVars, server, app_state>>

\* win32gui.SetForegroundWindow raises when the call is refused
ForegroundOutcomes(w) == IF CallOk(w) THEN {"ok", "raised"} ELSE {"raised"}

\* lines 145-149: the exception of SetForegroundWindow is swallowed
cap_foreground ==
    /\ cpc = "foreground"
    /\ \E o \in ForegroundOutcomes(win) :
          cg' = [cg EXCEPT !.fg = o]
    /\ ops' = Append(ops, "foreground")
    /\ cpc' = "read2"
    /\ UNCHANGED <<win, primary, rect, cres, envMoves, procVars, officeVars,
                   browserVars, locateVars, server, app_state>>

cap_read2_stale ==
    /\ cpc = "read2"
    /\ ops' = Append(ops, "read")
    /\ IF win.alive
       THEN /\ cg' = [cg EXCEPT !.last = GetWindowRect(win)]
            /\ cpc' = "mss"
            /\ UNCHANGED cres
       ELSE ReturnNone("window", cg)
    /\ UNCHANGED <<win, primary, rect, envMoves, procVars, officeVars, browserVars,
                   locateVars, server, app_state>>

\* lines 152-154: the rectangle the capture uses
cap_read2 ==
    /\ cpc = "read2"
    /\ ops' = Append(ops, "read")
    /\ IF win.alive
       THEN /\ rect' = GetWindowRect(win)
            /\ cg' = [cg EXCEPT !.last = GetWindowRect(win)]
            /\ cpc' = "mss"
            /\ UNCHANGED cres
       ELSE /\ ReturnNone("window", cg)
            /\ UNCHANGED rect
    /\ UNCHANGED <<win, primary, envMoves, procVars, officeVars, browserVars,
                   locateVars, server, app_state>>

ReturnImage(s, w, h, g) ==
    /\ cres' = [done |-> TRUE, image |-> TRUE, by |-> s, w |-> w, h |-> h,
                len |-> Base64Len(PngLen(w, h))]
    /\ cg' = g
    /\ cpc' = "done"

\* A grab of a region with a negative side raises; any grab may raise
GrabOutcomes(region) ==
    IF region.width < 0 \/ region.height < 0 THEN {"raised"} ELSE {"ok", "raised"}

\* line 166
WithinPrimary(r, p) == r[1] >= 0 /\ r[2] >= 0 /\ r[3] <= p.width /\ r[4] <= p.height

\* lines 166-176
MssRegion(r, p) ==
    IF WithinPrimary(r, p)
    THEN [left |-> r[1], top |-> r[2], width |-> Width(r), height |-> Height(r)]
    ELSE p

\* after a strategy has failed: where capture_window_screenshot goes on
AfterMssReraise == "reraise"
AfterMss == "pyautogui"
AfterPyautogui == "getdc"

Proceed(at, g) ==
    IF at = "reraise"
    THEN ReturnNone("chain", g)
    ELSE /\ cpc' = at
         /\ cg' = g
         /\ UNCHANGED cres

\* lines 157-195: mss
cap_mss ==
    /\ cpc = "mss"
    /\ ops' = Append(ops, "mss")
    /\ LET region == MssRegion(rect, primary)
           g == [cg EXCEPT !.used["mss"] = region]
       IN \E o \in {"noimport"} \cup GrabOutcomes(region) :
             IF o = "ok"
             THEN ReturnImage("mss", region.width, region.height, g)
             ELSE Proceed(AfterMss, [g EXCEPT !.failed = @ \cup {"mss"}])
    /\ UNCHANGED <<win, primary, rect, envMoves, procVars, officeVars, browserVars,
                   locateVars, server, app_state>>

\* lines 200-204
PyautoguiRegion(r) ==
    LET cap_left == Max(0, r[1])
        cap_top == Max(0, r[2])
    IN [left |-> cap_left, top |-> cap_top,
        width |-> Min(Width(r), ScreenWidth - cap_left),
        height |-> Min(Height(r), ScreenHeight - cap_top)]

\* lines 198-211: pyautogui
cap_pyautogui ==
    /\ cpc = "pyautogui"
    /\ ops' = Append(ops, "pyautogui")
    /\ LET region == PyautoguiRegion(rect)
           g == [cg EXCEPT !.used["pyautogui"] = region]
       IN \E o \in GrabOutcomes(region) :
             IF o = "ok"
             THEN ReturnImage("pyautogui", region.width, region.height, g)
             ELSE Proceed(AfterPyautogui, [g EXCEPT !.failed = @ \cup {"pyautogui"}])
    /\ UNCHANGED <<win, primary, rect, envMoves, procVars, officeVars, browserVars,
                   locateVars, server, app_state>>

\* GetWindowDC of a window that is gone raises; the calls that follow it
\* may raise with the device context held
GetDcOutcomes(w) == IF w.alive THEN {"ok", "raised"} ELSE {"nodc"}

\* lines 214-220: the device contexts and the bitmap of the PrintWindow method
cap_getdc ==
    /\ cpc = "getdc"
    /\ ops' = Append(ops, "printdc")
    /\ LET region == [left |-> 0, top |-> 0, width |-> Width(rect), height |-> Height(rect)]
           g == [cg EXCEPT !.used["printwindow"] = region]
       IN \E o \in GetDcOutcomes(win) :
             CASE o = "ok" ->
                    /\ cg' = [g EXCEPT !.dc = "held"]
                    /\ cpc' = "printwindow"
                    /\ UNCHANGED cres
               [] o = "raised" ->
                    ReturnNone("chain", [g EXCEPT !.dc = "held",
                                                  !.failed = @ \cup {"printwindow"}])
               [] OTHER ->
                    ReturnNone("chain", [g EXCEPT !.failed = @ \cup {"printwindow"}])
    /\ UNCHANGED <<win, primary, rect, envMoves, procVars, officeVars, browserVars,
                   locateVars, server, app_state>>

\* PrintWindow returns nonzero, returns zero, or the call raises
PrintWindowOutcomes(w) == IF w.alive THEN {"ok", "zero", "raised"} ELSE {"zero", "raised"}

AfterPrintWindowAlways(o) == "bitblt"

\* after PrintWindow: BitBlt when it returned zero or raised (lines 224-227)
AfterPrintWindow(o) == IF o = "ok" THEN "convert" ELSE "bitblt"

\* lines 222-227
cap_printwindow ==
    /\ cpc = "printwindow"
    /\ ops' = Append(ops, "printwindow")
    /\ \E o \in PrintWindowOutcomes(win) :
          /\ cpc' = AfterPrintWindow(o)
          /\ cg' = IF o = "ok" THEN cg ELSE [cg EXCEPT !.failed = @ \cup {"pwcall"}]
    /\ UNCHANGED <<win, primary, rect, cres, envMoves, procVars, officeVars,
                   browserVars, locateVars, server, app_state>>

\* lines 225, 227: save_dc.BitBlt; its exception reaches the outer handler
cap_bitblt ==
    /\ cpc = "bitblt"
    /\ ops' = Append(ops, "bitblt")
    /\ \E o \in {"ok", "raised"} :
          IF o = "ok"
          THEN /\ cpc' = "convert"
               /\ UNCHANGED <<cres, cg>>
          ELSE ReturnNone("chain", [cg EXCEPT !.failed = @ \cup {"printwindow", "bitblt"}])
    /\ UNCHANGED <<win, primary, rect, envMoves, procVars, officeVars, browserVars,
                   locateVars, server, app_state>>

\* lines 229-245: the bitmap becomes an image, the device contexts are
\* released, the image is encoded
cap_convert ==
    /\ cpc = "convert"
    /\ \E o \in {"ok", "raised_bits", "raised_save"} :
          CASE o = "ok" ->
                 ReturnImage(IF "pwcall" \in cg.failed THEN "bitblt" ELSE "printwindow",
                             Width(rect), Height(rect), [cg EXCEPT !.dc = "released"])
            [] o = "raised_bits" ->
                 ReturnNone("chain", [cg EXCEPT !.failed = @ \cup {"printwindow"}])
            [] OTHER ->
                 ReturnNone("chain", [cg EXCEPT !.dc = "released",
                                                !.failed = @ \cup {"printwindow"}])
    /\ UNCHANGED <<win, primary, rect, ops, envMoves, procVars, officeVars,
                   browserVars, locateVars, server, app_state>>

\* The window is destroyed while capture_window_screenshot runs
DestroyWindow ==
    /\ cpc \notin {"idle", "done"}
    /\ win.alive
    /\ win' = [win EXCEPT !.alive = FALSE]
    /\ UNCHANGED <<primary, cpc, rect, ops, cres, cg, envMoves, procVars, officeVars,
                   browserVars, locateVars, server, app_state>>

\* The owner of the window or the user resizes or minimizes it while
\* capture_window_screenshot runs
ChangeWindow ==
    /\ cpc \notin {"idle", "done"}
    /\ win.alive
    /\ envMoves < MaxEnvMoves
    /\ \/ \E r \in NormalRects : win' = [win EXCEPT !.state = "normal", !.normal = r]
       \/ win' = [win EXCEPT !.state = "min"]
    /\ win' # win
    /\ envMoves' = envMoves + 1
    /\ UNCHANGED <<primary, cpc, rect, ops, cres, cg, procVars, officeVars,
                   browserVars, locateVars, server, app_state>>

capture_window_screenshot ==
    \/ cap_restore \/ cap_read0 \/ cap_move \/ cap_maximize \/ cap_read1
    \/ cap_foreground \/ cap_read2
    \/ cap_mss \/ cap_pyautogui \/ cap_getdc \/ cap_printwindow \/ cap_bitblt
    \/ cap_convert

Windows ==
    [alive : {TRUE}, denied : BOOLEAN, state : WindowStates,
     normal : NormalRects, maxrect : MaximizedRects]

\* -------------------------------------------------- rows, columns, colours
\* The used rows and columns of the active sheet are sequences of labels;
\* MaxEdits bounds the deletions made on one sheet.
MaxRow == 4
MaxColumn == 28
MaxCount == 2
MaxEdits == 1

\* A column name is the sequence of its letters, A = 1 .. Z = 26.
Letters == 1..26
ColumnNames ==
    {<<a>> : a \in Letters} \cup {<<1, b>> : b \in 1..(MaxColumn - 26)}

\* Lines 1749-1751: col_num = col_num * 26 + (ord(char) - ord('A') + 1)
RECURSIVE col_num(_)
col_num(column) ==
    IF column = <<>> THEN 0
    ELSE col_num(SubSeq(column, 1, Len(column) - 1)) * 26 + column[Len(column)]

\* Lines 1753-1756: while end_col_num > 0: divmod(end_col_num - 1, 26) and
\* the letter chr(65 + remainder) goes in front
RECURSIVE end_col(_)
end_col(end_col_num) ==
    IF end_col_num > 0
    THEN end_col((end_col_num - 1) \div 26) \o <<((end_col_num - 1) % 26) + 1>>
    ELSE <<>>

\* What Excel makes of a reference 'a:b' of two row numbers or two column
\* indexes: no range when one of them is not on the sheet, else the rows or
\* columns from the smaller to the larger.
ExcelSpan(a, b) == [ok |-> a >= 1 /\ b >= 1, lo |-> Min(a, b), hi |-> Max(a, b)]

\* Range.Delete on the positions lo..hi of a sheet whose used cells are s
DeleteSpan(s, lo, hi) ==
    SubSeq(s, 1, Min(lo - 1, Len(s))) \o SubSeq(s, hi + 1, Len(s))

\* The handlers below acquire Excel as every feature endpoint does and
\* return 'No active Excel workbook' when it has none.
EditCause(g, f, valid) ==
    IF g.raised # "none" THEN g.raised
    ELSE IF f = "nodoc" THEN "nodoc"
    ELSE IF f = "raised" THEN "feature"
    ELSE IF ~valid THEN "range" ELSE "none"

EditResponse(cause, okMsg, errMsg, nodocMsg) ==
    CASE cause = "none"  -> get_success_response(okMsg)
      [] cause = "nodoc" -> get_error_response(nodocMsg, "")
      [] OTHER -> get_error_response(errMsg, ExcText(cause))

\* excel_delete_row: ws.Rows(f'{row}:{row + count - 1}').Delete()
excel_delete_row ==
    \E d \in DispatchChoices("excel") : \E f \in FeatureOutcomes(get_or_create("excel", d)) :
    \E row \in 1..MaxRow : \E count \in 0..MaxCount :
        LET g == get_or_create("excel", d)
            last == row + count - 1
            span == ExcelSpan(row, last)
            cause == EditCause(g, f, span.ok)
        IN /\ app_state.edits < MaxEdits
           /\ Constructed(g, "excel")
           /\ office_apps' = [office_apps EXCEPT !["excel"] = g.slot]
           /\ lastAcquired' = [lastAcquired EXCEPT !["excel"] = g.ret]
           /\ call' = [AcquireCall("delete_row", "excel", g, cause) EXCEPT
                          !.arg = [NoArg EXCEPT !.start = row, !.count = count,
                                                !.last = last, !.was = app_state.rows]]
           /\ resp' = EditResponse(cause, "row(s) deleted", "Failed to delete row",
                                   "No active Excel workbook")
           /\ app_state' = IF cause = "none"
                           THEN [app_state EXCEPT
                                    !.rows = DeleteSpan(@, span.lo, span.hi),
                                    !.edits = @ + 1]
                           ELSE app_state
           /\ UNCHANGED <<browserVars, locateVars, captureVars, server>>

\* excel_delete_column: the index of the start column, the name of the column
\* count - 1 further, ws.Columns(f'{column}:{end_col}').Delete(). Excel reads
\* the two names back as indexes.
excel_delete_column ==
    \E d \in DispatchChoices("excel") : \E f \in FeatureOutcomes(get_or_create("excel", d)) :
    \E column \in ColumnNames : \E count \in 0..MaxCount :
        LET g == get_or_create("excel", d)
            endname == end_col(col_num(column) + count - 1)
            span == ExcelSpan(col_num(column), col_num(endname))
            cause == EditCause(g, f, span.ok)
        IN /\ app_state.edits < MaxEdits
           /\ Constructed(g, "excel")
           /\ office_apps' = [office_apps EXCEPT !["excel"] = g.slot]
           /\ lastAcquired' = [lastAcquired EXCEPT !["excel"] = g.ret]
           /\ call' = [AcquireCall("delete_column", "excel", g, cause) EXCEPT
                          !.arg = [NoArg EXCEPT !.start = col_num(column), !.count = count,
                                                !.last = col_num(endname),
                                                !.endname = endname,
                                                !.was = app_state.columns]]
           /\ resp' = EditResponse(cause, "column(s) deleted", "Failed to delete column",
                                   "No active Excel workbook")
           /\ app_state' = IF cause = "none"
                           THEN [app_state EXCEPT
                                    !.columns = DeleteSpan(@, span.lo, span.hi),
                                    !.edits = @ + 1]
                           ELSE app_state
           /\ UNCHANGED <<browserVars, locateVars, captureVars, server>>

\* The endpoints that take a colour '#RRGGBB', and the application of each.
ColorEndpoints ==
    {"word_set_font", "excel_set_font", "excel_set_border", "excel_set_fill",
     "powerpoint_set_font", "powerpoint_set_background"}

EndpointKind(e) ==
    IF e = "word_set_font" THEN "word"
    ELSE IF e \in {"powerpoint_set_font", "powerpoint_set_background"} THEN "powerpoint"
    ELSE "excel"

ColorOk ==
    [word_set_font |-> "Font properties updated", excel_set_font |-> "Font properties updated",
     excel_set_border |-> "Border set", excel_set_fill |-> "Fill color set",
     powerpoint_set_font |-> "Font properties updated",
     powerpoint_set_background |-> "Background set"]

ColorError ==
    [word_set_font |-> "Failed to set font", excel_set_font |-> "Failed to set font",
     excel_set_border |-> "Failed to set border", excel_set_fill |-> "Failed to set fill",
     powerpoint_set_font |-> "Failed to set font",
     powerpoint_set_background |-> "Failed to set background"]

\* A colour string without its '#': six hexadecimal digits.
HexColors ==
    { <<15, 15, 0, 0, 0, 0>>, <<0, 0, 15, 15, 0, 0>>, <<0, 0, 0, 0, 15, 15>>,
      <<1, 2, 3, 4, 5, 6>>, <<15, 15, 15, 15, 15, 15>>, <<0, 0, 0, 0, 0, 0>> }

\* int(hex_color[i:i+2], 16) for i in (0, 2, 4)
rgb(hex_color) ==
    <<16 * hex_color[1] + hex_color[2], 16 * hex_color[3] + hex_color[4],
      16 * hex_color[5] + hex_color[6]>>

\* color_int as each endpoint computes it: rgb[0] + (rgb[1] << 8) +
\* (rgb[2] << 16) in the Word and Excel endpoints, rgb[2] + (rgb[1] << 8) +
\* (rgb[0] << 16) in the two PowerPoint endpoints.
color_int(e, hex_color) ==
    LET c == rgb(hex_color) IN
    IF EndpointKind(e) = "powerpoint"
    THEN c[3] + c[2] * 256 + c[1] * 65536
    ELSE c[1] + c[2] * 256 + c[3] * 65536

\* A colour endpoint: the application is acquired, the handler returns when
\* it has no document, the colour is converted and assigned.
set_color(e) ==
    LET k == EndpointKind(e) IN
    \E d \in DispatchChoices(k) : \E f \in FeatureOutcomes(get_or_create(k, d)) :
    \E hex_color \in HexColors :
        LET g == get_or_create(k, d)
            cause == EditCause(g, f, TRUE)
        IN /\ Constructed(g, k)
           /\ office_apps' = [office_apps EXCEPT ![k] = g.slot]
           /\ lastAcquired' = [lastAcquired EXCEPT ![k] = g.ret]
           /\ call' = [AcquireCall(e, k, g, cause) EXCEPT
                          !.arg = [NoArg EXCEPT !.hex = hex_color,
                                                !.value = color_int(e, hex_color)]]
           /\ resp' = EditResponse(cause, ColorOk[e], ColorError[e],
                                   NoDocError[k])
           /\ app_state' = IF cause = "none"
                           THEN [app_state EXCEPT !.color = color_int(e, hex_color)]
                           ELSE app_state
           /\ UNCHANGED <<browserVars, locateVars, captureVars, server>>

\* ---------------------------------------------------------- specifications
InitOffice ==
    /\ office_apps = [k \in OfficeKinds |-> None]
    /\ call = NoCall
    /\ resp = get_success_response("")
    /\ lastAcquired = [k \in OfficeKinds |-> None]

InitProcesses ==
    /\ kindOf = [h \in Handles |-> "none"]
    /\ running = {}
    /\ nextId = 0
    /\ app_state = [selection |-> "caret", size |-> "user",
                    rows |-> [i \in 1..MaxRow |-> i],
                    columns |-> [i \in 1..MaxColumn |-> i],
                    edits |-> 0, color |-> 0]

InitLocator ==
    /\ windows = << >>
    /\ class_name = Some(<< >>)
    /\ title_pattern = NoStr
    /\ lpc = "done"
    /\ located = NotLocated

InitCapturer ==
    /\ win = [alive |-> TRUE, denied |-> FALSE, state |-> "normal",
              normal |-> <<100, 100, 1380, 820>>,
              maxrect |-> <<0, 0, ScreenWidth, ScreenHeight>>]
    /\ primary = [left |-> 0, top |-> 0, width |-> ScreenWidth, height |-> ScreenHeight]
    /\ cpc = "idle"
    /\ rect = <<0, 0, 0, 0>>
    /\ ops = << >>
    /\ cres = NoResult
    /\ cg = NoSteps
    /\ envMoves = 0

InitBrowserServer ==
    /\ browser = None
    /\ browser_type = "chrome"
    /\ pc = [t \in Threads |-> "idle"]
    /\ loc = [t \in Threads |-> NoLocals]
    /\ bcall = NoBCall
    /\ bresp = get_success_response("")

\* The office server after start-up.
Init ==
    /\ InitOffice /\ InitProcesses /\ InitBrowserServer /\ InitLocator
    /\ InitCapturer
    /\ server = "office"
    /\ chrome_installed = TRUE
    /\ edge_installed = TRUE

\* The browser server after start-up, on a machine with any of the browsers.
InitBrowser ==
    /\ InitOffice /\ InitProcesses /\ InitBrowserServer /\ InitLocator
    /\ InitCapturer
    /\ server = "browser"
    /\ chrome_installed \in BOOLEAN
    /\ edge_installed \in BOOLEAN

\* The office server: app.run(threaded=False), one request at a time.
Next ==
    \/ \E k \in OfficeKinds : office_launch(k)
    \/ \E k \in OfficeKinds : office_write(k)
    \/ \E k \in OfficeKinds : office_close(k)
    \/ office_shutdown
    \/ KillOffice

Spec == Init /\ [][Next]_vars

\* One step of a request of the browser server run by thread t: the requests
\* that touch the registry, their launches headless.
BrowserRequest(t) ==
    \/ launch_begin(t) \/ launch_quit(t) \/ launch_clear(t) \/ launch_construct(t)
    \/ launch_done(t)
    \/ close_begin(t) \/ close_quit(t) \/ close_clear(t)
    \/ browser_navigate(t) \/ browser_shutdown(t)

\* The browser server when its requests arrive one after the other.
NextBrowser ==
    \/ BrowserRequest(1) \/ launch_front(1) \/ browser_focus(1) \/ browser_screenshot(1)
    \/ KillBrowser

\* The row and column deletions of the Excel endpoints.
InitExcel ==
    /\ InitOffice /\ InitProcesses /\ InitBrowserServer /\ InitLocator
    /\ InitCapturer
    /\ server = "excel"
    /\ chrome_installed = TRUE
    /\ edge_installed = TRUE

NextExcel == excel_delete_row \/ excel_delete_column \/ office_launch("excel")

SpecExcel == InitExcel /\ [][NextExcel]_vars

\* The colour endpoints of the three applications.
NextColors == \E e \in ColorEndpoints : set_color(e)

SpecColors == InitExcel /\ [][NextColors]_vars

SpecBrowser == InitBrowser /\ [][NextBrowser]_vars

\* The browser server: app.run(threaded=True), one thread per request.
NextThreaded == (\E t \in Threads : BrowserRequest(t)) \/ KillBrowser

SpecThreaded == InitBrowser /\ [][NextThreaded]_vars

\* A call of find_window_by_class_or_title on any desktop: class_name is a
\* string (it may be empty), title_pattern a string or None.
InitLocate ==
    /\ InitOffice /\ InitProcesses /\ InitBrowserServer /\ InitCapturer
    /\ chrome_installed = TRUE
    /\ edge_installed = TRUE
    /\ windows \in WindowLists
    /\ class_name \in {Some(c) : c \in ClassPatterns}
    /\ title_pattern \in {NoStr} \cup {Some(t) : t \in TitlePatterns}
    /\ lpc = "call"
    /\ located = NotLocated
    /\ server = "locate"

NextLocate == Locate

SpecLocate == InitLocate /\ [][NextLocate]_vars

\* A call of capture_window_screenshot with the handle of a window in any
\* state, on a desktop whose first display is at the origin or beside it.
InitCapture ==
    /\ InitOffice /\ InitProcesses /\ InitBrowserServer /\ InitLocator
    /\ chrome_installed = TRUE
    /\ edge_installed = TRUE
    /\ win \in Windows
    /\ primary \in Monitors
    /\ cpc = "restore"
    /\ rect = <<0, 0, 0, 0>>
    /\ ops = << >>
    /\ cres = NoResult
    /\ cg = NoSteps
    /\ envMoves = 0
    /\ server = "capture"

NextCapture == capture_window_screenshot \/ DestroyWindow \/ ChangeWindow

SpecCapture == InitCapture /\ [][NextCapture]_vars

\* Every way a screenshot is taken: a run of the office server, a run of the
\* browser server, or a call of capture_window_screenshot.
InitScreenshots == Init \/ InitBrowser \/ InitCapture

\* The office server serving launch, screenshot and close requests
NextOfficeShots ==
    \/ \E k \in OfficeKinds : office_launch(k)
    \/ \E k \in OfficeKinds : office_screenshot(k)
    \/ \E k \in OfficeKinds : office_close(k)
    \/ KillOffice

\* The browser server serving headless launches, screenshots and the other
\* registry requests, one after the other
NextBrowserShots == BrowserRequest(1) \/ browser_screenshot(1) \/ KillBrowser

NextScreenshots ==
    \/ server = "office" /\ NextOfficeShots
    \/ server = "browser" /\ NextBrowserShots
    \/ server = "capture" /\ NextCapture

SpecScreenshots == InitScreenshots /\ [][NextScreenshots]_vars

\* ------------------------------------------------------------------ claims
KindClasses == OfficeKinds \cup {"browser"}
ClassOf(k) == IF k \in BrowserKinds THEN "browser" ELSE k
RunningOf(K) == {h \in running : ClassOf(kindOf[h]) = K}

\* C1: at most one running application instance per kind exists at any time
\* (a newly constructed instance never coexists with an earlier one of its
\* kind that is still running).
C1_AtMostOneInstance == \A K \in KindClasses : Cardinality(RunningOf(K)) <= 1

\* A handler of kind k that calls get_or_create
AcquireStep(k) == office_launch(k) \/ office_write(k) \/ office_screenshot(k)

C3_StaleRecreated ==
    [][\A k \in OfficeKinds :
          (office_apps[k] # None /\ office_apps[k] \notin running /\ AcquireStep(k)) =>
             /\ call'.ret # office_apps[k]
             /\ call'.probe = "failed"
             /\ call'.dispatch = 1
             /\ call'.raised # "stale"
             /\ \/ /\ call'.ret = None
                   /\ call'.raised = "construct"
                   /\ office_apps'[k] = None
                   /\ nextId' = nextId
                \/ /\ call'.ret = nextId + 1
                   /\ nextId' = nextId + 1
                   /\ office_apps'[k] = call'.ret
                   /\ running' = running \cup {call'.ret}
                   /\ call'.raised # "construct"]_vars

C3_Witness ==
    /\ call.op \in {"launch", "write"}
    /\ call.probe = "failed"
    /\ call.ret # None
    /\ office_apps[call.kind] = call.ret
    /\ call.ret \in running

\* C4: acquire on an empty slot launches a new instance; a release of a held
\* handle quits that instance; and the acquire that follows the release
\* launches another instance and does not return the released handle.
C4_ReleaseThenFresh ==
    [][\A k \in OfficeKinds :
          /\ (AcquireStep(k) /\ office_apps[k] = None /\ call'.raised # "construct")
                => (call'.ret = nextId + 1 /\ call'.ret \in running')
          /\ (office_close(k) /\ office_apps[k] # None)
                => office_apps[k] \notin running'
          /\ (AcquireStep(k) /\ call.op = "close" /\ call.kind = k
                 /\ call.target # None /\ call'.ret # None)
                => (call'.ret # call.target /\ call'.dispatch = 1)]_vars

\* C5: a release of a held handle calls Quit and leaves the slot empty when
\* it returns, whatever the save step and Quit did.
C5_ReleaseQuitsAndClears ==
    [][/\ \A k \in OfficeKinds :
             (office_close(k) /\ office_apps[k] # None)
                => (call'.quit # "none" /\ office_apps'[k] = None)
       /\ \A t \in Threads :
             (pc[t] \in {"c_quit", "c_clear"} /\ pc'[t] = "idle")
                => (bcall'.quit # "none" /\ browser' = None)]_vars

\* C6: a construction failure inside acquire reaches the caller as the
\* launch-failed error of that kind with the platform error text, and no
\* other failure is reported as that error; Dispatch was called once and the
\* slot is empty.
C6_LaunchFailedTyped ==
    /\ call.raised = "construct" =>
          /\ resp = get_error_response(LaunchError[call.kind], ExcText("construct"))
          /\ call.dispatch = 1
          /\ office_apps[call.kind] = None
    /\ \A k \in OfficeKinds :
          (~resp.success /\ resp.error = LaunchError[k]) => call.raised = "construct"

\* C7: no operation returns an error caused by a held handle whose process
\* is gone.
C7_StaleNeverSurfaced == call.raised # "stale" /\ bcall.raised # "stale"

\* C8: requests of one kind are serialized and the handle is never
\* duplicated: once every request has returned, at most one browser instance
\* is running.
C8_NeverDuplicated ==
    (\A t \in Threads : pc[t] = "idle") => Cardinality(RunningOf("browser")) <= 1

\* A window matches when a supplied class name is contained in its class name
\* or a supplied title pattern is contained in its title, letter case aside.
IsSupplied(p) == p # NoStr /\ Len(p[1]) > 0
Matches(w) ==
    \/ IsSupplied(class_name) /\ Contains(Lower(class_name[1]), Lower(w.class))
    \/ IsSupplied(title_pattern) /\ Contains(Lower(title_pattern[1]), Lower(w.title))

C10_FirstMatch ==
    lpc = "done" =>
       LET exact == {i \in 1..Len(windows) : Lower(windows[i].class) = Lower(class_name[1])}
           cands == {i \in 1..Len(windows) : windows[i].visible /\ Matches(windows[i])}
       IN /\ ~located.raised
          /\ exact # {} => (located.hwnd \in exact /\ ~located.enumerated
                            /\ \A j \in exact : located.hwnd <= j)
          /\ exact = {} =>
                /\ located.enumerated
                /\ cands = {} => located.hwnd = None
                /\ cands # {} => (located.hwnd \in cands /\ \A j \in cands : located.hwnd <= j)
          /\ located.hwnd # None => Matches(windows[located.hwnd])

C10_Witness ==
    /\ lpc = "done"
    /\ located.enumerated
    /\ located.hwnd = 2
    /\ ~windows[1].visible
    /\ Matches(windows[1])
    /\ ~Contains(Lower(class_name[1]), Lower(windows[2].class))

\* C11: find_window_by_class_or_title never returns the handle of a window
\* that is not visible, on the exact class-name path and on the enumeration
\* path alike; with no visible window it returns None.
C11_NeverInvisible ==
    lpc = "done" =>
       /\ located.hwnd # None => windows[located.hwnd].visible
       /\ (\A i \in 1..Len(windows) : ~windows[i].visible) => located.hwnd = None

\* The operations of capture_window_screenshot on the window, in the order
\* of the code; the move step reads the size it keeps first.
PositioningOrder == <<"restore", "read", "move", "maximize", "read", "foreground", "read">>
StrategyOrder == <<"mss", "pyautogui", "printdc", "printwindow", "bitblt">>
StrategyOps == {StrategyOrder[i] : i \in 1..Len(StrategyOrder)}
IsStrategyOp(o) == o \in StrategyOps
Attempted(o) == \E i \in 1..Len(ops) : ops[i] = o
IsPrefix(a, b) == Len(a) <= Len(b) /\ \A i \in 1..Len(a) : a[i] = b[i]
AsRegion(r) == [left |-> r[1], top |-> r[2], width |-> Width(r), height |-> Height(r)]

\* C12: the window operations happen in the order restore, move, maximize,
\* read rectangle, foreground attempt, read rectangle; no capture strategy
\* starts before the last read, and every strategy works on the rectangle of
\* that last read.
C12_PositioningOrder ==
    /\ IsPrefix(SubSeq(ops, 1, Min(Len(ops), Len(PositioningOrder))), PositioningOrder)
    /\ \A i \in 1..Len(ops) : IsStrategyOp(ops[i]) => i > Len(PositioningOrder)
    /\ Attempted("mss") =>
          /\ rect = cg.last
          /\ cg.used["mss"] \in {AsRegion(cg.last), primary}
    /\ Attempted("pyautogui") => cg.used["pyautogui"] = PyautoguiRegion(cg.last)
    /\ Attempted("printdc") =>
          /\ cg.used["printwindow"].width = Width(cg.last)
          /\ cg.used["printwindow"].height = Height(cg.last)

C12_Witness ==
    /\ cres.image
    /\ cres.by = "bitblt"
    /\ cg.last # cg.checked
    /\ cg.fg = "raised"

\* C13: the rectangle handed to the capture strategies has width > 0 and
\* height > 0.
C13_RectPositive ==
    Attempted("mss") => (Width(cg.last) > 0 /\ Height(cg.last) > 0)

\* C14: when a positioning step (restore, move, maximize, rectangle read)
\* has failed, no capture strategy is attempted and the call returns no image.
C14_PositioningFailureAborts ==
    (\/ cg.restore = "failed" \/ cg.move = "failed" \/ cg.maximize = "failed"
     \/ cg.abort = "window")
       => /\ \A i \in 1..Len(ops) : ~IsStrategyOp(ops[i])
          /\ ~cres.image

\* C15: the move step places the window at the anchor position with the
\* width and height it had before the move.
C15_MoveKeepsSize ==
    cg.move = "ok" =>
       cg.post = <<AnchorX, AnchorY, AnchorX + Width(cg.pre), AnchorY + Height(cg.pre)>>

\* C16: the foreground step attempts to attach the input processing to the
\* thread of the window first and falls back to the plain call; its failure
\* is not reported and aborts nothing.
C16_EscalationThenFallback ==
    cg.fg # "none" =>
       /\ cg.attach # "none"
       /\ cg.abort # "foreground"

\* C17: the strategies are attempted in the order mss, pyautogui,
\* PrintWindow, and BitBlt only after PrintWindow returned zero or raised;
\* the strategy that produced an image is the last one attempted and its
\* image is the result.
C17_StrategyOrder ==
    LET S == SelectSeq(ops, IsStrategyOp)
    IN /\ IsPrefix(S, StrategyOrder)
       /\ Attempted("bitblt") => "pwcall" \in cg.failed
       /\ cres.image =>
             /\ cres.by = "mss" =>
                   (S = <<"mss">> /\ cres.w = cg.used["mss"].width
                                  /\ cres.h = cg.used["mss"].height)
             /\ cres.by = "pyautogui" =>
                   (S = SubSeq(StrategyOrder, 1, 2) /\ "mss" \in cg.failed
                      /\ cres.w = cg.used["pyautogui"].width
                      /\ cres.h = cg.used["pyautogui"].height)
             /\ cres.by = "printwindow" =>
                   (S = SubSeq(StrategyOrder, 1, 4) /\ "pwcall" \notin cg.failed
                      /\ {"mss", "pyautogui"} \subseteq cg.failed)
             /\ cres.by = "bitblt" =>
                   (S = StrategyOrder /\ {"mss", "pyautogui", "pwcall"} \subseteq cg.failed)
             /\ cres.by \in {"printwindow", "bitblt"} =>
                   (cres.w = cg.used["printwindow"].width
                      /\ cres.h = cg.used["printwindow"].height)

C17_Witness ==
    /\ cres.image
    /\ cres.by = "printwindow"
    /\ ~Attempted("bitblt")

\* C18: a strategy that failed is followed by an attempt of the next one;
\* a failure of the capture is returned only after the PrintWindow method was
\* attempted and failed, with BitBlt attempted when PrintWindow returned zero
\* or raised; no exception leaves capture_window_screenshot.
C18_FailuresSwallowed ==
    /\ "mss" \in cg.failed => (cpc = "pyautogui" \/ Attempted("pyautogui"))
    /\ "pyautogui" \in cg.failed => (cpc = "getdc" \/ Attempted("printdc"))
    /\ "pwcall" \in cg.failed => (cpc = "bitblt" \/ Attempted("bitblt"))
    /\ (cres.done /\ cg.abort = "chain") =>
          /\ ~cres.image
          /\ {"mss", "pyautogui", "printwindow"} \subseteq cg.failed
          /\ Attempted("mss") /\ Attempted("pyautogui") /\ Attempted("printdc")
    /\ cpc = "done" => cres.done

C18_Witness ==
    /\ cres.done
    /\ cg.abort = "chain"
    /\ "bitblt" \in cg.failed
    /\ win.alive

\* A rectangle inside the bounds of a display
InDisplay(r, p) ==
    /\ r[1] >= p.left /\ r[2] >= p.top
    /\ r[3] <= p.left + p.width /\ r[4] <= p.top + p.height

\* C20: mss captures the window rectangle when it lies inside the bounds of
\* the primary display and the whole primary display otherwise, wherever the
\* display is in the virtual screen; its image has the size of what it
\* captured.
C20_MssRegion ==
    Attempted("mss") =>
       /\ cg.used["mss"] = IF InDisplay(cg.last, primary) THEN AsRegion(cg.last) ELSE primary
       /\ cres.by = "mss" =>
             (cres.w = cg.used["mss"].width /\ cres.h = cg.used["mss"].height)

C21_ClampedRegion ==
    Attempted("pyautogui") =>
       LET g == cg.used["pyautogui"]
           r == cg.last
           overlaps == /\ r[1] < r[3] /\ r[2] < r[4]
                       /\ r[1] < ScreenWidth /\ r[3] > 0
                       /\ r[2] < ScreenHeight /\ r[4] > 0
       IN /\ overlaps =>
                /\ g.width > 0 /\ g.height > 0
                /\ g.left >= 0 /\ g.top >= 0
                /\ g.left + g.width <= ScreenWidth
                /\ g.top + g.height <= ScreenHeight
                /\ g.left >= r[1] /\ g.top >= r[2]
                /\ g.left + g.width <= r[3]
                /\ g.top + g.height <= r[4]

\* C22: a capture method that failed leaves what a caller can observe of the
\* application as it was, and the image returned comes from the one strategy
\* that succeeded: a screenshot endpoint whose methods all failed, or whose
\* capture raised, on an application that was already held, changes neither
\* the selection of the document nor the size of the window.
C22_FailedStrategyNoEffect ==
    [][/\ \A k \in OfficeKinds :
             (office_screenshot(k) /\ call'.raised = "exhausted" /\ call'.dispatch = 0)
                => app_state' = app_state
       /\ \A t \in Threads :
             (browser_screenshot(t) /\ ~bresp'.success) => app_state' = app_state
       /\ (cres'.image /\ ~cres.image) =>
             (cres'.by \notin cg'.failed /\ cg'.used = cg.used)]_vars

\* C23: every failure of launch, release, screenshot and shutdown, in both
\* servers, is returned as the error envelope (success = FALSE and an error
\* message), and a handler in which a call failed does not return a success
\* envelope.
C23_FailuresAreErrors ==
    /\ (call.op \in {"launch", "close", "screenshot", "shutdown"}
          /\ (call.raised # "none" \/ call.quit = "raised"))
       => (~resp.success /\ "error" \in DOMAIN resp)
    /\ (bcall.op \in {"launch", "close", "screenshot", "shutdown"}
          /\ (bcall.raised # "none" \/ (bcall.op # "launch" /\ bcall.quit = "raised")))
       => (~bresp.success /\ "error" \in DOMAIN bresp)

\* The handler of thread t returns from browser_launch in this step.
LaunchReturns(t) == pc[t] \in {"l_find", "l_front"} /\ pc'[t] = "idle"

\* C24: when browser_launch is called right after a successful browser_launch,
\* the browser it created still running and held (no kill and no close in
\* between), the second call constructs nothing and the slot still holds the
\* first call's browser.
C24_SecondLaunchReuses ==
    [][\A t \in Threads :
          (/\ LaunchReturns(t)
           /\ bcall.op = "launch" /\ bcall.raised = "none"
           /\ loc[t].held # None /\ loc[t].held = bcall.built)
          => (loc[t].built = None /\ browser' = bcall.built /\ browser' \in running')]_vars

\* C25: browser_launch answers 'No browser found' only when neither Chrome nor
\* Edge is installed.
C25_NoBrowserOnlyWhenNone ==
    (bcall.op = "launch" /\ bcall.raised = "nobrowser")
       => (~chrome_installed /\ ~edge_installed)

\* C26: a browser_launch that returns an error leaves the registry as it was:
\* the running browser it held before the call is still held and still
\* running, and browser_type still names its kind.
C26_FailedLaunchKeepsRegistry ==
    [][\A t \in Threads :
          (LaunchReturns(t) /\ ~bresp'.success /\ loc[t].held # None)
          => (/\ browser' = loc[t].held
              /\ browser' \in running'
              /\ browser_type' = kindOf'[browser'])]_vars

\* C27: in every run of bring_window_to_front, each AttachThreadInput(.., True)
\* that succeeded has been followed by its AttachThreadInput(.., False) when
\* the function returns, also when SetForegroundWindow raised in between.
C27_AttachMatchedByDetach == bcall.front.attached = bcall.front.detached

\* C28: when capture_window_screenshot has returned, with an image or with
\* None, no device context or bitmap acquired by the PrintWindow method is
\* still held.
C28_HandlesReleased == cres.done => cg.dc # "held"

\* C29: a successful excel_delete_row or excel_delete_column removes exactly
\* count consecutive rows or columns starting at the position given, for
\* every count >= 0, and the last column named by delete_column is the column
\* (start + count - 1) in bijective base 26.
C29_DeletesExactlyCount ==
    (call.op \in {"delete_row", "delete_column"} /\ call.raised = "none")
       => LET was == call.arg.was
              now == IF call.op = "delete_row" THEN app_state.rows ELSE app_state.columns
              first == call.arg.start
              count == call.arg.count
          IN /\ Len(now) = Len(was) - Min(count, Max(0, Len(was) - first + 1))
             /\ \A i \in 1..Len(now) :
                   now[i] = IF i < first THEN was[i] ELSE was[i + count]
             /\ call.op = "delete_column"
                   => col_num(call.arg.endname) = first + count - 1

\* C30: every endpoint that takes a colour '#RRGGBB' hands the application the
\* same integer for it, R + 256 * G + 65536 * B.
C30_SameColorInteger ==
    (call.op \in ColorEndpoints /\ call.raised = "none")
       => LET h == call.arg.hex
          IN /\ call.arg.value = (16 * h[1] + h[2]) + 256 * (16 * h[3] + h[4])
                                   + 65536 * (16 * h[5] + h[6])
             /\ app_state.color = call.arg.value

====
